---- MODULE Spec2Model ----
(***************************************************************************)
(* Video-memory allocator and buffer-pool lifecycle of the framebuffer     *)
(* sinks (gstframebuffersink.c, gstfbdevframebuffersink.c, drmsink).       *)
(*                                                                         *)
(* Addresses are offsets relative to the start of the mapped framebuffer   *)
(* (video_memory_allocator->framebuffer).  gsize arithmetic is unsigned    *)
(* and wraps; the model keeps that with a reduced word of GSizeBits bits.  *)
(***************************************************************************)
EXTENDS Integers, Sequences, FiniteSets, Bags, TLC

(* ------------------------------- bounds -------------------------------- *)

\* framebuffer_size of the arena handed to video_memory_init, in bytes
ArenaLen == 7
\* largest size passed to an allocate call
MaxSize == 3
\* largest number of GstMemory handles outstanding at once
MaxLive == 3
\* width of gsize in the model
GSizeBits == 10

\* varinfo.yres * fixinfo.line_length, the bytes of one visible screen
ScreenBytes == 2
\* largest info.size of a negotiated video format
MaxFrameSize == 2
\* largest number of buffer pools created in one run
MaxPools == 2
\* largest number of set_caps calls in one run
MaxSetCaps == 2

\* the largest framebuffer mapping of the buffer count policy, in bytes
MaxMapSize == 34

\* the largest flip-buffers property
MaxFlipBuffers == 2

\* the number of frames shown
MaxFrames == 5

GSizeMod == 2 ^ GSizeBits

\* alignment bitmasks (alignment minus 1) passed as allocation parameter
AlignMasks == {0, 1, 3}

\* the allocators that share the chain algorithm
AllocatorKinds == {"framebuffersink", "fbdevframebuffersink"}

NoMem == -1

VARIABLES
    video_memory_allocator, \* [framebuffer_size, end_marker, total_allocated, chain]
    allocator_kind,         \* which implementation serves the arena
    params_align,           \* fbdev allocator: its own params.align
    mems,                   \* bag of the GstMemory handles returned and not yet freed
    last,                   \* the last call and its result
    pc,                     \* per thread: the statement it executes next
    lock_owner,             \* the thread holding the lock, or NoThread
    call,                   \* per thread: arguments and locals of its call
    drm_total_allocated,    \* total_allocated of the DRM allocator
    framebuffersink,        \* the fields of GstFramebufferSink
    pools,                  \* the GstBufferPool objects created, by creation order
    lastSink,               \* the last sink call and its result
    revision                \* which revision of gstframebuffersink.c runs

allocVars == <<video_memory_allocator, allocator_kind, params_align, mems, last>>

threadVars == <<pc, lock_owner, call, drm_total_allocated>>

sinkVars == <<framebuffersink, pools, lastSink, revision>>

vars == <<allocVars, threadVars, sinkVars>>

\* the streaming thread and the thread that tears buffers down
Threads == {1, 2}

NoThread == 0

NoCall == [op |-> "none"]

(* ----------------------------- arithmetic ------------------------------ *)

\* unsigned gsize wrap-around
GSize(x) == x % GSizeMod

RECURSIVE BitAnd(_, _)
BitAnd(a, b) ==
    IF a = 0 \/ b = 0 THEN 0
    ELSE (a % 2) * (b % 2) + 2 * BitAnd(a \div 2, b \div 2)

\* the macro with the "+ 1" dropped
AlignBytesOffByOne(offset, align) ==
    BitAnd(align - BitAnd(offset, align), align)

\* (((align) + 1 - ((offset) & (align))) & (align))
ALIGNMENT_GET_ALIGN_BYTES(offset, align) ==
    BitAnd(align + 1 - BitAnd(offset, align), align)

(* ------------------------------ allocator ------------------------------ *)

ChainEntry(address, size) == [framebuffer_address |-> address, size |-> size]

\* state after gst_framebuffersink_video_memory_init
video_memory_init(framebuffer_size) ==
    [framebuffer_size |-> framebuffer_size,
     end_marker       |-> 0,
     total_allocated  |-> 0,
     chain            |-> <<>>]

\* start of the gap in front of chain entry i
GapStart(chain, i) ==
    IF i = 1 THEN 0
    ELSE chain[i - 1].framebuffer_address + chain[i - 1].size

\* a traversal that wants one byte more than the request in every gap
RECURSIVE ChainScanStrict(_, _, _, _)
ChainScanStrict(chain, i, size, align) ==
    IF i > Len(chain) THEN NoMem
    ELSE LET gap_start   == GapStart(chain, i)
             gap_size    == GSize(chain[i].framebuffer_address - gap_start)
             align_bytes == ALIGNMENT_GET_ALIGN_BYTES(gap_start, align)
         IN  IF gap_size > align_bytes + size
             THEN gap_start + align_bytes
             ELSE ChainScanStrict(chain, i + 1, size, align)

\* the traversal of the chain for a free spot: the offset found from entry i
\* on, or NoMem when the chain is exhausted
RECURSIVE ChainScan(_, _, _, _)
ChainScan(chain, i, size, align) ==
    IF i > Len(chain) THEN NoMem
    ELSE LET gap_start   == GapStart(chain, i)
             gap_size    == GSize(chain[i].framebuffer_address - gap_start)
             align_bytes == ALIGNMENT_GET_ALIGN_BYTES(gap_start, align)
         IN  IF gap_size >= align_bytes + size
             THEN gap_start + align_bytes
             ELSE ChainScan(chain, i + 1, size, align)

\* an allocate that refuses a request ending exactly at the arena's end
AllocOffsetExactFitRefused(vm, size, align) ==
    LET align_bytes == ALIGNMENT_GET_ALIGN_BYTES(vm.end_marker, align)
    IN  IF vm.end_marker + align_bytes + size >= vm.framebuffer_size
        THEN ChainScan(vm.chain, 1, size, align)
        ELSE vm.end_marker + align_bytes

\* an allocate that looks for a gap in the chain before it tries end_marker
AllocOffsetGapFirst(vm, size, align) ==
    LET align_bytes == ALIGNMENT_GET_ALIGN_BYTES(vm.end_marker, align)
        gap         == ChainScan(vm.chain, 1, size, align)
    IN  IF gap # NoMem THEN gap
        ELSE IF vm.end_marker + align_bytes + size > vm.framebuffer_size
             THEN NoMem
             ELSE vm.end_marker + align_bytes

\* the framebuffer_offset chosen by allocate, or NoMem
AllocOffset(vm, size, align) ==
    LET align_bytes == ALIGNMENT_GET_ALIGN_BYTES(vm.end_marker, align)
    IN  IF vm.end_marker + align_bytes + size > vm.framebuffer_size
        THEN ChainScan(vm.chain, 1, size, align)
        ELSE vm.end_marker + align_bytes

\* an insertion that always appends the new entry
FirstGreaterNone(chain, i, address) == Len(chain) + 1

\* index of the first entry whose framebuffer address is greater, or
\* Len + 1 when there is none (the entry is appended)
RECURSIVE FirstGreater(_, _, _)
FirstGreater(chain, i, address) ==
    IF i > Len(chain) THEN i
    ELSE IF chain[i].framebuffer_address > address THEN i
    ELSE FirstGreater(chain, i + 1, address)

InsertBefore(chain, i, entry) ==
    SubSeq(chain, 1, i - 1) \o <<entry>> \o SubSeq(chain, i, Len(chain))

DeleteLink(chain, i) ==
    SubSeq(chain, 1, i - 1) \o SubSeq(chain, i + 1, Len(chain))

\* allocate that also counts the alignment padding as allocated
AllocCommitCountsPadding(vm, size, offset) ==
    [vm EXCEPT
       !.end_marker      = IF offset + size > vm.end_marker
                           THEN offset + size ELSE vm.end_marker,
       !.total_allocated = GSize(vm.total_allocated + size
                               + (IF offset > vm.end_marker
                                  THEN offset - vm.end_marker ELSE 0)),
       !.chain           = InsertBefore(vm.chain,
                               FirstGreater(vm.chain, 1, offset),
                               ChainEntry(offset, size))]

\* the allocator after a successful allocate of size bytes at offset
AllocCommit(vm, size, offset) ==
    [vm EXCEPT
       !.end_marker      = IF offset + size > vm.end_marker
                           THEN offset + size ELSE vm.end_marker,
       !.total_allocated = GSize(vm.total_allocated + size),
       !.chain           = InsertBefore(vm.chain,
                               FirstGreater(vm.chain, 1, offset),
                               ChainEntry(offset, size))]

\* a lookup that compares the address of the entry only
FindEntryByAddress(chain, i, mem) ==
    IF \E j \in DOMAIN chain : chain[j].framebuffer_address = mem.data
    THEN CHOOSE j \in DOMAIN chain :
            /\ chain[j].framebuffer_address = mem.data
            /\ \A k \in DOMAIN chain :
                  chain[k].framebuffer_address = mem.data => j <= k
    ELSE 0

\* index of the first entry matching the memory's address and size, 0 if none
RECURSIVE FindEntry(_, _, _)
FindEntry(chain, i, mem) ==
    IF i > Len(chain) THEN 0
    ELSE IF chain[i].framebuffer_address = mem.data /\ chain[i].size = mem.size
         THEN i
    ELSE FindEntry(chain, i + 1, mem)

\* a free that never takes end_marker back
EndMarkerAfterFreeKept(vm, i) == vm.end_marker

\* the end marker after entry i has been deleted
EndMarkerAfterFree(vm, i) ==
    IF i = Len(vm.chain)
    THEN IF i = 1 THEN 0
         ELSE vm.chain[i - 1].framebuffer_address + vm.chain[i - 1].size
    ELSE vm.end_marker

\* free that forgets to give the bytes back to total_allocated
FreeCommitKeepsTotal(vm, mem) ==
    LET i == FindEntry(vm.chain, 1, mem)
    IN  IF i = 0 THEN vm
        ELSE [vm EXCEPT
                !.end_marker = EndMarkerAfterFree(vm, i),
                !.chain      = DeleteLink(vm.chain, i)]

\* the allocator after gst_framebuffersink_video_memory_free (mem)
FreeCommit(vm, mem) ==
    LET i == FindEntry(vm.chain, 1, mem)
    IN  IF i = 0 THEN vm
        ELSE [vm EXCEPT
                !.end_marker      = EndMarkerAfterFree(vm, i),
                !.chain           = DeleteLink(vm.chain, i),
                !.total_allocated = GSize(vm.total_allocated - mem.size)]

\* gst_framebuffersink_video_memory_get_available
video_memory_get_available(vm) == GSize(vm.framebuffer_size - vm.total_allocated)

\* the alignment an allocate call applies: the base allocator takes the
\* caller's, the fbdev allocator ignores it and uses its own params
AppliedAlign(align) ==
    IF allocator_kind = "fbdevframebuffersink" THEN params_align ELSE align

(* ------------------------------- actions ------------------------------- *)

\* no sink has been started
SinkIdle ==
    /\ framebuffersink = [info |-> "none", pool |-> 0]
    /\ pools = <<>>
    /\ lastSink = [op |-> "init"]
    /\ revision = 1

\* no thread is inside a call
ThreadsIdle ==
    /\ pc = [t \in Threads |-> "idle"]
    /\ lock_owner = NoThread
    /\ call = [t \in Threads |-> NoCall]
    /\ drm_total_allocated = 0

Init ==
    /\ video_memory_allocator = video_memory_init(ArenaLen)
    /\ allocator_kind \in AllocatorKinds
    /\ params_align \in IF allocator_kind = "fbdevframebuffersink"
                        THEN AlignMasks ELSE {0}
    /\ mems = EmptyBag
    /\ last = [op |-> "init"]
    /\ ThreadsIdle
    /\ SinkIdle

GstMemory(data, size) == [data |-> data, size |-> size]

\* allocate (size, align) -> GstMemory or NULL
video_memory_alloc(size, align) ==
    LET vm     == video_memory_allocator
        offset == AllocOffset(vm, size, AppliedAlign(align))
    IN  /\ BagCardinality(mems) < MaxLive
        /\ IF offset = NoMem
           THEN /\ UNCHANGED <<video_memory_allocator, mems>>
                /\ last' = [op |-> "alloc", ok |-> FALSE, size |-> size,
                            align |-> align, offset |-> NoMem,
                            available |-> video_memory_get_available(vm)]
           ELSE /\ video_memory_allocator' = AllocCommit(vm, size, offset)
                /\ mems' = mems (+) SetToBag({GstMemory(offset, size)})
                /\ last' = [op |-> "alloc", ok |-> TRUE, size |-> size,
                            align |-> align, offset |-> offset,
                            available |-> video_memory_get_available(vm)]
        /\ UNCHANGED <<allocator_kind, params_align>>

\* free of an outstanding GstMemory; roundtrip tells that it is the one the
\* call before returned
video_memory_free(mem) ==
    LET vm == video_memory_allocator
        roundtrip == /\ last.op = "alloc"
                     /\ last.ok
                     /\ mem = GstMemory(last.offset, last.size)
    IN  /\ video_memory_allocator' = FreeCommit(vm, mem)
        /\ mems' = mems (-) SetToBag({mem})
        /\ last' = [op |-> "free", found |-> FindEntry(vm.chain, 1, mem) # 0,
                    mem |-> mem,
                    roundtrip |-> roundtrip,
                    available |-> IF roundtrip THEN last.available
                                  ELSE video_memory_get_available(vm)]
        /\ UNCHANGED <<allocator_kind, params_align>>

Alloc ==
    /\ \E size \in 0..MaxSize, align \in AlignMasks : video_memory_alloc(size, align)
    /\ UNCHANGED <<threadVars, sinkVars>>

Free ==
    /\ \E mem \in BagToSet(mems) : video_memory_free(mem)
    /\ UNCHANGED <<threadVars, sinkVars>>

Next == Alloc \/ Free

Spec == Init /\ [][Next]_vars

(* ------------------------- allocator properties ------------------------ *)

\* the bytes of the arena a GstMemory covers
Bytes(mem) == mem.data .. (mem.data + mem.size - 1)

Arena == 0 .. (video_memory_allocator.framebuffer_size - 1)

\* C1: at every point of every sequence of allocate and free calls, the live
\* regions are pairwise non-overlapping and each lies within [0, arena length).
C1_LiveRegionsDisjointInBounds ==
    /\ \A m \in BagToSet(mems) : Bytes(m) \subseteq Arena
    /\ \A m, n \in BagToSet(mems) : m # n => Bytes(m) \cap Bytes(n) = {}
    /\ \A m \in BagToSet(mems) : CopiesIn(m, mems) > 1 => Bytes(m) = {}

C9_DrainedIsInitial ==
    mems = EmptyBag =>
        /\ video_memory_allocator.chain = <<>>
        /\ video_memory_get_available(video_memory_allocator)
              = video_memory_allocator.framebuffer_size
        /\ video_memory_allocator = video_memory_init(ArenaLen)

\* the last outstanding region has just been freed
C9_Witness ==
    /\ mems = EmptyBag
    /\ last.op = "free" /\ last.found
    /\ last.mem.size > 0

\* C10: allocate immediately followed by free of the returned region leaves
\* bytes_available() at the value it had before the allocate.
C10_AllocFreeRoundTrip ==
    (last.op = "free" /\ last.roundtrip)
        => video_memory_get_available(video_memory_allocator) = last.available

\* a round trip on an arena that already held regions, served with padding
C10_Witness ==
    /\ last.op = "free" /\ last.roundtrip
    /\ last.mem.size > 0
    /\ BagCardinality(mems) >= 1
    /\ last.mem.data > video_memory_allocator.end_marker

\* offset rounded up to a multiple of align + 1
RoundUp(offset, align) == ((offset + align) \div (align + 1)) * (align + 1)

\* where a gap can start: the arena's start and the end of every live region
GapStarts == {0} \cup {m.data + m.size : m \in BagToSet(mems)}

\* the end of the gap that starts at g: the start of the next live region
\* (an empty region at g itself does not end it), or the end of the arena
GapEnd(g) ==
    LET next == {m.data : m \in {n \in BagToSet(mems) :
                                    n.data > g \/ (n.data = g /\ n.size > 0)}}
                    \cup {video_memory_allocator.framebuffer_size}
    IN  CHOOSE e \in next : \A f \in next : e <= f

\* some gap holds size bytes from its start rounded up to the alignment
SomeGapFits(size, align) ==
    \E g \in GapStarts :
        /\ \A m \in BagToSet(mems) : ~(m.data < g /\ g < m.data + m.size)
        /\ RoundUp(g, align) + size <= GapEnd(g)

\* C12: allocate fails with out-of-memory only if no gap (before the first
\* live region, between two consecutive live regions, or behind the last one
\* up to the arena end) holds size bytes from the gap's start rounded up to
\* the alignment the allocator applies.
C12_FailsOnlyWithoutFittingGap ==
    (last.op = "alloc" /\ ~last.ok)
        => ~SomeGapFits(last.size, AppliedAlign(last.align))

\* an allocate that failed although as many bytes as it asked for are free
C12_Witness ==
    /\ last.op = "alloc" /\ ~last.ok
    /\ last.size > 0
    /\ last.available >= last.size
    /\ BagCardinality(mems) >= 2

\* the sum of the sizes recorded in the chain from entry i on
RECURSIVE ChainSizes(_, _)
ChainSizes(chain, i) ==
    IF i > Len(chain) THEN 0
    ELSE chain[i].size + ChainSizes(chain, i + 1)

\* the sum of the sizes of the live regions
RECURSIVE LiveSizes(_)
LiveSizes(ms) ==
    IF ms = {} THEN 0
    ELSE LET m == CHOOSE x \in ms : TRUE
         IN  m.size * CopiesIn(m, mems) + LiveSizes(ms \ {m})

\* C21: total_allocated is the sum of the sizes recorded in the chain, which
\* is the sum of the sizes of the live regions, and bytes_available() is the
\* arena length minus that sum; padding is not counted.
C21_AvailableIsArenaMinusLiveSizes ==
    LET vm == video_memory_allocator
    IN  /\ vm.total_allocated = ChainSizes(vm.chain, 1)
        /\ ChainSizes(vm.chain, 1) = LiveSizes(BagToSet(mems))
        /\ video_memory_get_available(vm)
              = vm.framebuffer_size - LiveSizes(BagToSet(mems))

\* a region placed behind padding is live beside another one
C21_Witness ==
    /\ last.op = "alloc" /\ last.ok /\ last.size > 0
    /\ BagCardinality(mems) >= 2
    /\ video_memory_allocator.end_marker
          > video_memory_allocator.total_allocated

\* C22: allocate with size 0 fails and no zero-size entry is in the chain.
C22_ZeroSizeRejected ==
    /\ (last.op = "alloc" /\ last.size = 0) => ~last.ok
    /\ \A i \in DOMAIN video_memory_allocator.chain :
          video_memory_allocator.chain[i].size > 0

\* C28: the chain is in non-decreasing order of address, and the entry of a
\* successful allocate stands behind every entry whose address is not
\* greater and in front of every entry whose address is greater.
C28_ChainSortedByAddress ==
    LET chain == video_memory_allocator.chain
    IN  /\ \A i, j \in DOMAIN chain :
              i < j => chain[i].framebuffer_address <= chain[j].framebuffer_address
        /\ (last.op = "alloc" /\ last.ok)
              => \E k \in DOMAIN chain :
                    /\ chain[k] = ChainEntry(last.offset, last.size)
                    /\ \A j \in DOMAIN chain :
                          j > k => chain[j].framebuffer_address > last.offset

\* an allocate has put its entry in front of another one, and a free has
\* deleted an entry in front of another one
C28_Witness ==
    LET chain == video_memory_allocator.chain
    IN  \/ /\ last.op = "alloc" /\ last.ok /\ last.size > 0
           /\ Len(chain) >= 3
           /\ chain[2] = ChainEntry(last.offset, last.size)
        \/ /\ last.op = "free" /\ last.found
           /\ Len(chain) >= 2
           /\ chain[1].framebuffer_address < last.mem.data
           /\ chain[2].framebuffer_address > last.mem.data

MemoryPairs ==
    LET chain == video_memory_allocator.chain
        live  == {chain[i] : i \in DOMAIN chain}
    IN  (IF last.op = "free" THEN {last.mem} ELSE {})
        \cup {GstMemory(e.framebuffer_address, e.size + 1) : e \in live}
        \cup {GstMemory(e.framebuffer_address + 1, e.size) :
                 e \in {x \in live : x.framebuffer_address < ArenaLen}}

\* free of a memory that is not outstanding: the walk over the chain, and
\* GST_ERROR "video_memory_free failed" when it falls through
video_memory_free_unmatched(mem) ==
    LET vm == video_memory_allocator
    IN  /\ mem \notin BagToSet(mems)
        /\ video_memory_allocator' = FreeCommit(vm, mem)
        /\ last' = [op |-> "free_unmatched",
                    reported |-> FindEntry(vm.chain, 1, mem) = 0,
                    double |-> last.op = "free" /\ last.mem = mem]
        /\ UNCHANGED <<allocator_kind, params_align, mems>>

FreeUnmatched ==
    /\ \E mem \in MemoryPairs : video_memory_free_unmatched(mem)
    /\ UNCHANGED <<threadVars, sinkVars>>

NextFree == Alloc \/ Free \/ FreeUnmatched

SpecFree == Init /\ [][NextFree]_vars

\* C11: a free of an address and size pair that matches no live region is
\* reported and leaves the chain, end_marker and total_allocated, hence
\* bytes_available(), unchanged.
C11_UnmatchedFreeReportedNoChange ==
    [][last'.op = "free_unmatched"
          => /\ last'.reported
             /\ video_memory_allocator' = video_memory_allocator]_vars

\* the memory freed by the call before is freed again while other regions
\* are live
C11_Witness ==
    /\ last.op = "free_unmatched" /\ last.double /\ last.reported
    /\ video_memory_allocator.chain # <<>>

(* ------------------- allocators called from two threads ---------------- *)

\* the allocators whose locking differs
LockAllocatorKinds == {"framebuffersink", "drmsink"}

\* calls that have been entered and will add a GstMemory
PendingAllocs == {t \in Threads : call[t].op = "alloc"}

GST_OBJECT_LOCK(t) ==
    /\ lock_owner = NoThread
    /\ lock_owner' = t

\* an unlock that leaves the lock with the caller
GST_OBJECT_UNLOCK_Skipped(t) == lock_owner' = lock_owner

GST_OBJECT_UNLOCK(t) == lock_owner' = NoThread

Goto(t, label) == pc' = [pc EXCEPT ![t] = label]

Return(t) ==
    /\ pc' = [pc EXCEPT ![t] = "idle"]
    /\ call' = [call EXCEPT ![t] = NoCall]

InitLock ==
    /\ video_memory_allocator = video_memory_init(ArenaLen)
    /\ allocator_kind \in LockAllocatorKinds
    /\ params_align = 0
    /\ mems = EmptyBag
    /\ last = [op |-> "init"]
    /\ ThreadsIdle
    /\ SinkIdle

\* gst_framebuffersink_video_memory_alloc up to GST_OBJECT_LOCK
VmAllocLock(t, size, align) ==
    /\ allocator_kind = "framebuffersink"
    /\ pc[t] = "idle"
    /\ BagCardinality(mems) + Cardinality(PendingAllocs) < MaxLive
    /\ GST_OBJECT_LOCK(t)
    /\ Goto(t, "vm_alloc")
    /\ call' = [call EXCEPT ![t] = [op |-> "alloc", size |-> size, align |-> align]]
    /\ UNCHANGED <<allocVars, drm_total_allocated, sinkVars>>

\* the body of gst_framebuffersink_video_memory_alloc, ending with the unlock
VmAllocBody(t) ==
    LET vm     == video_memory_allocator
        offset == AllocOffset(vm, call[t].size, call[t].align)
    IN  /\ pc[t] = "vm_alloc"
        /\ IF offset = NoMem
           THEN UNCHANGED <<video_memory_allocator, mems>>
           ELSE /\ video_memory_allocator' = AllocCommit(vm, call[t].size, offset)
                /\ mems' = mems (+) SetToBag({GstMemory(offset, call[t].size)})
        /\ GST_OBJECT_UNLOCK(t)
        /\ Return(t)
        /\ UNCHANGED <<allocator_kind, params_align, last, drm_total_allocated, sinkVars>>

\* gst_framebuffersink_video_memory_free up to GST_OBJECT_LOCK
VmFreeLock(t, mem) ==
    /\ allocator_kind = "framebuffersink"
    /\ pc[t] = "idle"
    /\ GST_OBJECT_LOCK(t)
    /\ Goto(t, "vm_free")
    /\ call' = [call EXCEPT ![t] = [op |-> "free", mem |-> mem]]
    /\ mems' = mems (-) SetToBag({mem})
    /\ UNCHANGED <<video_memory_allocator, allocator_kind, params_align, last,
                   drm_total_allocated, sinkVars>>

\* the body of gst_framebuffersink_video_memory_free, ending with the unlock
VmFreeBody(t) ==
    /\ pc[t] = "vm_free"
    /\ video_memory_allocator' = FreeCommit(video_memory_allocator, call[t].mem)
    /\ GST_OBJECT_UNLOCK(t)
    /\ Return(t)
    /\ UNCHANGED <<allocator_kind, params_align, mems, last, drm_total_allocated,
                   sinkVars>>

\* gst_drmsink_video_memory_allocator_alloc up to GST_OBJECT_LOCK
DrmAllocLock(t, size) ==
    /\ allocator_kind = "drmsink"
    /\ pc[t] = "idle"
    /\ BagCardinality(mems) + Cardinality(PendingAllocs) < MaxLive
    /\ drm_total_allocated <= MaxLive * MaxSize
    /\ GST_OBJECT_LOCK(t)
    /\ Goto(t, "drm_alloc_create")
    /\ call' = [call EXCEPT ![t] = [op |-> "alloc", size |-> size, total |-> 0]]
    /\ UNCHANGED <<allocVars, drm_total_allocated, sinkVars>>

\* creating, registering and mapping the dumb buffer: any of the three can
\* fail, and then the call unlocks and returns NULL
DrmAllocCreate(t, created) ==
    /\ pc[t] = "drm_alloc_create"
    /\ IF created
       THEN /\ Goto(t, "drm_alloc_read")
            /\ UNCHANGED <<lock_owner, call>>
       ELSE /\ GST_OBJECT_UNLOCK(t)
            /\ Return(t)
    /\ UNCHANGED <<allocVars, drm_total_allocated, sinkVars>>

\* total_allocated += size, the load
DrmAllocRead(t) ==
    /\ pc[t] = "drm_alloc_read"
    /\ call' = [call EXCEPT ![t].total = drm_total_allocated]
    /\ Goto(t, "drm_alloc_write")
    /\ UNCHANGED <<allocVars, lock_owner, drm_total_allocated, sinkVars>>

\* total_allocated += size, the store, then the unlock and the return
DrmAllocWrite(t) ==
    /\ pc[t] = "drm_alloc_write"
    /\ drm_total_allocated' = GSize(call[t].total + call[t].size)
    /\ mems' = mems (+) SetToBag({GstMemory(0, call[t].size)})
    /\ GST_OBJECT_UNLOCK(t)
    /\ Return(t)
    /\ UNCHANGED <<video_memory_allocator, allocator_kind, params_align, last,
                   sinkVars>>

\* entry of gst_drmsink_video_memory_allocator_free: no lock is taken
DrmFreeCall(t, mem) ==
    /\ allocator_kind = "drmsink"
    /\ pc[t] = "idle"
    /\ Goto(t, "drm_free_read")
    /\ call' = [call EXCEPT ![t] = [op |-> "free", mem |-> mem, total |-> 0]]
    /\ mems' = mems (-) SetToBag({mem})
    /\ UNCHANGED <<video_memory_allocator, allocator_kind, params_align, last,
                   lock_owner, drm_total_allocated, sinkVars>>

\* total_allocated -= mem->size, the load
DrmFreeRead(t) ==
    /\ pc[t] = "drm_free_read"
    /\ call' = [call EXCEPT ![t].total = drm_total_allocated]
    /\ Goto(t, "drm_free_write")
    /\ UNCHANGED <<allocVars, lock_owner, drm_total_allocated, sinkVars>>

\* total_allocated -= mem->size, the store; munmap, destroy, return
DrmFreeWrite(t) ==
    /\ pc[t] = "drm_free_write"
    /\ drm_total_allocated' = GSize(call[t].total - call[t].mem.size)
    /\ Return(t)
    /\ UNCHANGED <<allocVars, lock_owner, sinkVars>>

VmAlloc == \E t \in Threads, size \in 1..MaxSize, align \in AlignMasks :
               VmAllocLock(t, size, align)

VmAllocDone == \E t \in Threads : VmAllocBody(t)

VmFree == \E t \in Threads, mem \in BagToSet(mems) : VmFreeLock(t, mem)

VmFreeDone == \E t \in Threads : VmFreeBody(t)

DrmAlloc == \E t \in Threads, size \in 1..MaxSize : DrmAllocLock(t, size)

DrmAllocStep == \E t \in Threads :
                    \/ \E created \in BOOLEAN : DrmAllocCreate(t, created)
                    \/ DrmAllocRead(t)
                    \/ DrmAllocWrite(t)

DrmFree == \E t \in Threads, mem \in BagToSet(mems) : DrmFreeCall(t, mem)

DrmFreeStep == \E t \in Threads : DrmFreeRead(t) \/ DrmFreeWrite(t)

NextLock ==
    \/ VmAlloc \/ VmAllocDone \/ VmFree \/ VmFreeDone
    \/ DrmAlloc \/ DrmAllocStep \/ DrmFree \/ DrmFreeStep

SpecLock == InitLock /\ [][NextLock]_vars

\* the statements that read or write the allocator's shared state
SharedStateAccess ==
    {"vm_alloc", "vm_free", "drm_alloc_read", "drm_alloc_write",
     "drm_free_read", "drm_free_write"}

\* C3: in every video-memory allocator, a thread inside allocate or free
\* reads and updates the allocator's shared state only while it holds the
\* allocator's lock.
C3_SharedStateOnlyUnderLock ==
    \A t \in Threads : pc[t] \in SharedStateAccess => lock_owner = t

\* C33: a thread that is at a device ioctl or a memory mapping call of an
\* allocator (the creation, registration and mapping of the dumb buffer in
\* the DRM allocate, the unmapping and destruction in the DRM free; the base
\* allocator has none) does not hold the allocator's lock.
C33_NoIoUnderAllocatorLock ==
    \A t \in Threads :
        pc[t] \in {"drm_alloc_create", "drm_free_write"} => lock_owner # t

(* ------------------------ the sink: renegotiation ---------------------- *)

\* a NULL GstMemory pointer
NullMem == [data |-> NoMem, size |-> 0]

\* a NULL GstBufferPool pointer
NoPool == 0

\* the GstVideoInfo after gst_video_info_init
NoInfo == [size |-> 0, format |-> "unknown"]

\* the video infos announced by upstream: info.size and whether the format
\* is the framebuffer's or one only the hardware overlay takes; a scanline
\* of the video fills fixinfo.line_length
VideoInfos == [size : 1..MaxFrameSize, format : {"framebuffer", "overlay"}]

\* what the collaborators of one call answer: klass->prepare_overlay,
\* gst_framebuffersink_check_overlay_alignment, gst_buffer_pool_set_config
Hooks == {"ok", "prepare_overlay_failed", "not_native", "set_config_failed"}

Min(a, b) == IF a < b THEN a ELSE b

\* ((offset) + ALIGNMENT_GET_ALIGN_BYTES(offset, align))
ALIGNMENT_GET_ALIGNED(offset, align) ==
    offset + ALIGNMENT_GET_ALIGN_BYTES(offset, align)

\* a comparison that never finds two infos equal
NeverSame(a, b) == FALSE

\* gst_video_info_is_equal
SameInfo(a, b) == a = b

\* one call of gst_framebuffersink_video_memory_alloc on allocator state vm
VideoMemoryAlloc(vm, size, align) ==
    LET offset == AllocOffset(vm, size, align)
    IN  IF offset = NoMem
        THEN [vm |-> vm, mem |-> NullMem]
        ELSE [vm |-> AllocCommit(vm, size, offset), mem |-> GstMemory(offset, size)]

\* for (i = 0; i < n; i++) { m[i] = alloc (size, align);
\*                           if (m[i] == NULL) { n = i; break; } }
RECURSIVE AllocLoop(_, _, _, _, _)
AllocLoop(vm, got, n, size, align) ==
    IF Len(got) >= n THEN [vm |-> vm, got |-> got]
    ELSE LET r == VideoMemoryAlloc(vm, size, align)
         IN  IF r.mem = NullMem THEN [vm |-> vm, got |-> got]
             ELSE AllocLoop(r.vm, Append(got, r.mem), n, size, align)

\* gst_framebuffersink_video_memory_free of every memory of a list
RECURSIVE FreeAll(_, _)
FreeAll(vm, ms) ==
    IF ms = <<>> THEN vm
    ELSE FreeAll(FreeCommit(vm, Head(ms)), Tail(ms))

\* the record of one build loop of set_caps
NoBuild == [kind |-> "none", requested |-> 0, got |-> 0, size |-> 0, available |-> 0]

\* gst_framebuffersink_allocation_params_init: the overlay alignment, or the
\* alignment of the screen pages, which is at least word alignment
allocation_params_init(s) ==
    IF s.use_hardware_overlay THEN s.overlay_alignment ELSE 3

\* a pool fresh from gst_video_buffer_pool_new and gst_buffer_pool_set_config
GstBufferPool(caps, size, n, align) ==
    [caps |-> caps, size |-> size, buffers |-> n, align |-> align,
     sink_ref |-> TRUE, upstream |-> FALSE, active |-> FALSE,
     queue |-> <<>>, out |-> <<>>]

\* a pool configured for the whole buffer count (HALF_POOLS not defined)
PoolBuffersWhole(s) ==
    IF s.use_hardware_overlay THEN s.nu_overlays_used
                              ELSE s.nu_framebuffers_used

\* the number of buffers a pool is configured for (HALF_POOLS)
PoolBuffers(s) ==
    (IF s.use_hardware_overlay THEN s.nu_overlays_used
                               ELSE s.nu_framebuffers_used) \div 2

\* gst_framebuffersink_allocate_buffer_pool: the world after the call and the
\* pool returned
allocate_buffer_pool(w, info, hook) ==
    LET s       == w.sink
        first   == s.use_hardware_overlay /\ s.screens = <<>>
        r       == IF first THEN VideoMemoryAlloc(w.vm, ScreenBytes, 0)
                   ELSE [vm |-> w.vm, mem |-> NullMem]
        n       == IF s.use_hardware_overlay THEN s.nu_overlays_used
                                             ELSE s.nu_framebuffers_used
        w1      == [w EXCEPT !.vm = r.vm,
                             !.sink.screens = IF first THEN <<r.mem>> ELSE @,
                             !.tries = Append(@, [n |-> n,
                                                  ok |-> hook # "set_config_failed"])]
        newpool == GstBufferPool(info, info.size, PoolBuffers(s),
                                 allocation_params_init(s))
    IN  IF hook = "set_config_failed"
        THEN [w |-> w1, pool |-> NoPool]
        ELSE [w |-> [w1 EXCEPT !.pools = Append(@, newpool)],
              pool |-> Len(w.pools) + 1]

\* the screens loop that forgets to lower nu_framebuffers_used
BuildScreensKeepsCount(w) ==
    LET s == w.sink
        r == AllocLoop(w.vm, <<>>, s.nu_framebuffers_used, ScreenBytes, 0)
    IN  [w EXCEPT !.vm = r.vm,
                  !.sink.screens = r.got,
                  !.build = [kind |-> "screens",
                             requested |-> s.nu_framebuffers_used,
                             got |-> Len(r.got), size |-> ScreenBytes,
                             available |-> video_memory_get_available(w.vm)]]

\* success: the screens of non-pool mode
BuildScreens(w) ==
    LET s == w.sink
        r == AllocLoop(w.vm, <<>>, s.nu_framebuffers_used, ScreenBytes, 0)
    IN  [w EXCEPT !.vm = r.vm,
                  !.sink.screens = r.got,
                  !.sink.nu_framebuffers_used = Len(r.got),
                  !.build = [kind |-> "screens",
                             requested |-> s.nu_framebuffers_used,
                             got |-> Len(r.got), size |-> ScreenBytes,
                             available |-> video_memory_get_available(w.vm)]]

\* success_overlay: one screen and the overlays of non-pool mode
BuildOverlays(w, info) ==
    LET s  == w.sink
        r0 == VideoMemoryAlloc(w.vm, ScreenBytes, 0)
        r  == AllocLoop(r0.vm, <<>>, s.nu_overlays_used, info.size,
                        s.overlay_alignment)
    IN  [w EXCEPT !.vm = r.vm,
                  !.sink.screens = <<r0.mem>>,
                  !.sink.overlays = r.got,
                  !.sink.nu_overlays_used = Len(r.got),
                  !.build = [kind |-> "overlays",
                             requested |-> s.nu_overlays_used,
                             got |-> Len(r.got), size |-> info.size,
                             available |-> video_memory_get_available(r0.vm)]]

\* finish:
Finish(w, info) == [w EXCEPT !.sink.info = info, !.ret = TRUE]

\* nu_framebuffers_used as set below the label reconfigure
FramebuffersUsed(s, pool_mode) ==
    IF s.max_framebuffers >= 2
    THEN Min(s.max_framebuffers, IF pool_mode THEN 10 ELSE 3)
    ELSE s.nu_framebuffers_used

\* a fallback that leaves use_buffer_pool set after the pool build failed
reconfigureKeepsPoolMode(w, info, hook) ==
    LET s   == w.sink
        ubp == s.use_buffer_pool /\ s.max_framebuffers >= 2
        w1  == [w EXCEPT !.sink.use_buffer_pool = ubp,
                         !.sink.nu_framebuffers_used = FramebuffersUsed(s, ubp)]
        a   == allocate_buffer_pool(w1, info, hook)
    IN  IF ubp /\ a.pool # NoPool
        THEN [a.w EXCEPT !.sink.pool = a.pool]
        ELSE BuildScreens(IF ubp THEN a.w ELSE w1)

\* set_caps from the label reconfigure to the label finish
reconfigure(w, info, hook) ==
    LET s   == w.sink
        ubp == s.use_buffer_pool /\ s.max_framebuffers >= 2
        w1  == [w EXCEPT !.sink.use_buffer_pool = ubp,
                         !.sink.nu_framebuffers_used = FramebuffersUsed(s, ubp)]
        a   == allocate_buffer_pool(w1, info, hook)
        w2  == [a.w EXCEPT !.sink.use_buffer_pool = FALSE,
                           !.sink.nu_framebuffers_used = FramebuffersUsed(s, FALSE)]
    IN  IF ubp
        THEN IF a.pool # NoPool
             THEN [a.w EXCEPT !.sink.pool = a.pool]
             ELSE BuildScreens(w2)
        ELSE BuildScreens(w1)

\* a set_caps without the overlay_failed exit: a format only the overlay
\* takes is treated like the framebuffer's format
set_capsWithoutOverlayFailed(w, info, hook) ==
    LET s            == w.sink
        oa           == s.overlay_alignment
        max_overlays == (s.framebuffer_map_size - ALIGNMENT_GET_ALIGNED(ScreenBytes, oa))
                            \div ALIGNMENT_GET_ALIGNED(info.size, oa)
        use_overlay  == /\ info.format = "overlay"
                        /\ s.use_hardware_overlay
                        /\ max_overlays >= 2
                        /\ hook # "prepare_overlay_failed"
        w_ov  == [w EXCEPT !.sink.nu_framebuffers_used = s.max_framebuffers,
                           !.sink.nu_overlays_used = max_overlays]
        a     == allocate_buffer_pool(w_ov, info, hook)
        try   == s.use_buffer_pool /\ hook # "not_native"
        w_fb  == [(IF try THEN a.w ELSE w_ov) EXCEPT
                     !.sink.use_buffer_pool = FALSE,
                     !.sink.nu_overlays_used = Min(@, 8)]
        w_no  == [w EXCEPT !.sink.use_hardware_overlay = FALSE]
    IN  IF use_overlay
        THEN IF try /\ a.pool # NoPool
             THEN Finish([a.w EXCEPT !.sink.pool = a.pool], info)
             ELSE Finish(BuildOverlays(w_fb, info), info)
        ELSE Finish(reconfigure(w_no, info, hook), info)

\* gst_framebuffersink_set_caps for an info that differs from the current one
set_caps(w, info, hook) ==
    LET s            == w.sink
        oa           == s.overlay_alignment
        max_overlays == (s.framebuffer_map_size - ALIGNMENT_GET_ALIGNED(ScreenBytes, oa))
                            \div ALIGNMENT_GET_ALIGNED(info.size, oa)
        use_overlay  == /\ info.format = "overlay"
                        /\ s.use_hardware_overlay
                        /\ max_overlays >= 2
                        /\ hook # "prepare_overlay_failed"
        w_ov  == [w EXCEPT !.sink.nu_framebuffers_used = s.max_framebuffers,
                           !.sink.nu_overlays_used = max_overlays]
        a     == allocate_buffer_pool(w_ov, info, hook)
        try   == s.use_buffer_pool /\ hook # "not_native"
        w_fb  == [(IF try THEN a.w ELSE w_ov) EXCEPT
                     !.sink.use_buffer_pool = FALSE,
                     !.sink.nu_overlays_used = Min(@, 8)]
        w_no  == [w EXCEPT !.sink.use_hardware_overlay = FALSE]
    IN  IF use_overlay
        THEN IF try /\ a.pool # NoPool
             THEN Finish([a.w EXCEPT !.sink.pool = a.pool], info)
             ELSE Finish(BuildOverlays(w_fb, info), info)
        ELSE IF info.format = "overlay"
             THEN [w_no EXCEPT !.ret = FALSE]
             ELSE Finish(reconfigure(w_no, info, hook), info)

\* the sink, the allocator and the pools as one value; tries lists the pool
\* builds of the call, each with its buffer count and its result
World == [sink |-> framebuffersink, vm |-> video_memory_allocator,
          pools |-> pools, build |-> NoBuild, ret |-> TRUE, tries |-> <<>>]

\* the last call, and the number of set_caps calls so far
LastSink(op, info, ret, repeat, replaced, build, calls) ==
    [op |-> op, info |-> info, ret |-> ret, repeat |-> repeat,
     replaced |-> replaced, build |-> build, calls |-> calls]

\* the sink after gst_framebuffersink_start: the arena is mapped and the
\* allocator initialised; the properties are as the application set them
InitSink ==
    /\ video_memory_allocator = video_memory_init(ArenaLen)
    /\ allocator_kind = "framebuffersink"
    /\ params_align = 0
    /\ mems = EmptyBag
    /\ last = [op |-> "init"]
    /\ ThreadsIdle
    /\ framebuffersink \in
         [info : {NoInfo},
          framebuffer_map_size : {ArenaLen},
          use_buffer_pool : BOOLEAN,
          use_hardware_overlay : BOOLEAN,
          overlay_alignment : {0},
          max_framebuffers : {ArenaLen \div ScreenBytes},
          nu_framebuffers_used : {1},
          nu_overlays_used : {0},
          pool : {NoPool},
          screens : {<<>>},
          overlays : {<<>>}]
    /\ pools = <<>>
    /\ lastSink = LastSink("init", NoInfo, TRUE, FALSE, NoPool, NoBuild, 0)
    /\ revision = 1

\* gst_framebuffersink_set_caps
SetCaps(info, hook) ==
    \E w \in {IF SameInfo(info, framebuffersink.info) THEN World
                ELSE set_caps(World, info, hook)} :
        /\ Len(w.pools) <= MaxPools
        /\ lastSink.calls < MaxSetCaps
        /\ framebuffersink' = w.sink
        /\ video_memory_allocator' = w.vm
        /\ pools' = w.pools
        /\ lastSink' = LastSink("set_caps", info, w.ret,
                                lastSink.op = "set_caps" /\ lastSink.info = info,
                                IF w.sink.pool # framebuffersink.pool
                                THEN framebuffersink.pool ELSE NoPool,
                                w.build, lastSink.calls + 1)
                        @@ [tries |-> w.tries,
                            same |-> SameInfo(info, framebuffersink.info)]
        /\ UNCHANGED <<allocator_kind, params_align, mems, last, threadVars, revision>>

\* gst_framebuffersink_set_buffer_pool_query_answer: the pool as the query
\* carries it to upstream
QueryAnswer(pool, s, info) ==
    [pool EXCEPT !.caps = info, !.size = info.size,
                 !.buffers = PoolBuffers(s), !.upstream = TRUE]

\* a query that leaves the sink's reference to the pool it hands out
ProposeAllocationSamePool(caps, need_pool, hook) ==
    LET s       == framebuffersink
        own     == s.pool # NoPool /\ pools[s.pool].caps = caps
        another == /\ s.use_buffer_pool /\ ~own /\ need_pool
                   /\ video_memory_get_available(video_memory_allocator) >= caps.size * 2
                   /\ s.use_hardware_overlay
        a       == allocate_buffer_pool(World, caps, hook)
        pool    == IF own THEN s.pool ELSE IF another THEN a.pool ELSE NoPool
        w       == IF own THEN World
                   ELSE IF another THEN a.w ELSE World
    IN  \E w1 \in {IF pool # NoPool /\ hook # "set_config_failed"
                    THEN [w EXCEPT !.pools[pool] = QueryAnswer(@, w.sink, caps)]
                    ELSE w} :
        /\ Len(w1.pools) <= MaxPools
        /\ framebuffersink' = w1.sink
        /\ video_memory_allocator' = w1.vm
        /\ pools' = w1.pools
        /\ lastSink' = LastSink("propose_allocation", NoInfo,
                                ~(hook = "set_config_failed" /\ (own \/ another)),
                                FALSE, NoPool, NoBuild, lastSink.calls)
        /\ UNCHANGED <<allocator_kind, params_align, mems, last, threadVars, revision>>

\* gst_framebuffersink_propose_allocation
ProposeAllocation(caps, need_pool, hook) ==
    LET s       == framebuffersink
        own     == s.pool # NoPool /\ pools[s.pool].caps = caps
        another == /\ s.use_buffer_pool /\ ~own /\ need_pool
                   /\ video_memory_get_available(video_memory_allocator) >= caps.size * 2
                   /\ s.use_hardware_overlay
        a       == allocate_buffer_pool(World, caps, hook)
        pool    == IF own THEN s.pool ELSE IF another THEN a.pool ELSE NoPool
        w       == IF own THEN [World EXCEPT !.sink.pool = NoPool]
                   ELSE IF another THEN a.w ELSE World
    IN  \E w1 \in {IF pool # NoPool /\ hook # "set_config_failed"
                    THEN [w EXCEPT !.pools[pool] = QueryAnswer(@, w.sink, caps)]
                    ELSE w} :
        /\ Len(w1.pools) <= MaxPools
        /\ framebuffersink' = w1.sink
        /\ video_memory_allocator' = w1.vm
        /\ pools' = w1.pools
        /\ lastSink' = LastSink("propose_allocation", NoInfo,
                                ~(hook = "set_config_failed" /\ (own \/ another)),
                                FALSE, NoPool, NoBuild, lastSink.calls)
        /\ UNCHANGED <<allocator_kind, params_align, mems, last, threadVars, revision>>

\* every memory of the pool, those of checked-out buffers included
AllPoolMemories(pool) == pool.queue \o pool.out

\* the memories a pool gives back to the allocator when it is stopped
StoppedMemories(pool) == pool.queue

PoolStep == LastSink("pool", NoInfo, TRUE, FALSE, NoPool, NoBuild, lastSink.calls)

\* upstream activates the pool: the pool allocates its buffers through
\* gst_framebuffersink_video_memory_allocator_alloc, and gives back what it
\* got when one allocation fails
PoolSetActive(p) ==
    LET pool == pools[p]
        r    == AllocLoop(video_memory_allocator, <<>>, pool.buffers, pool.size,
                          pool.align)
        ok   == Len(r.got) = pool.buffers
    IN  /\ pool.upstream /\ ~pool.active
        /\ video_memory_allocator' = IF ok THEN r.vm ELSE FreeAll(r.vm, r.got)
        /\ pools' = [pools EXCEPT ![p].active = ok,
                                  ![p].queue = IF ok THEN r.got ELSE <<>>]
        /\ lastSink' = PoolStep
        /\ UNCHANGED <<allocator_kind, params_align, mems, last, threadVars,
                       framebuffersink, revision>>

\* upstream acquires a buffer of the pool
PoolAcquire(p) ==
    /\ pools[p].active /\ pools[p].queue # <<>>
    /\ pools' = [pools EXCEPT ![p].out = Append(@, Head(pools[p].queue)),
                              ![p].queue = Tail(@)]
    /\ lastSink' = PoolStep
    /\ UNCHANGED <<allocVars, threadVars, framebuffersink, revision>>

\* a buffer comes back: to the queue of an active pool, and through
\* gst_framebuffersink_video_memory_allocator_free otherwise
PoolRelease(p, i) ==
    LET mem == pools[p].out[i]
    IN  /\ pools' = [pools EXCEPT
                       ![p].out = DeleteLink(@, i),
                       ![p].queue = IF pools[p].active THEN Append(@, mem) ELSE @]
        /\ video_memory_allocator' =
               IF pools[p].active THEN video_memory_allocator
               ELSE FreeCommit(video_memory_allocator, mem)
        /\ lastSink' = PoolStep
        /\ UNCHANGED <<allocator_kind, params_align, mems, last, threadVars,
                       framebuffersink, revision>>

\* upstream deactivates the pool and drops its reference
PoolSetInactive(p) ==
    /\ pools[p].upstream
    /\ video_memory_allocator' =
           FreeAll(video_memory_allocator, StoppedMemories(pools[p]))
    /\ pools' = [pools EXCEPT ![p].upstream = FALSE, ![p].active = FALSE,
                              ![p].queue = <<>>]
    /\ lastSink' = PoolStep
    /\ UNCHANGED <<allocator_kind, params_align, mems, last, threadVars,
                   framebuffersink, revision>>

\* set_caps with any video info and any answer of the collaborators
Renegotiate == \E info \in VideoInfos, hook \in Hooks : SetCaps(info, hook)

\* an allocation query with any caps
AllocationQuery ==
    \E caps \in VideoInfos, need_pool \in BOOLEAN, hook \in {"ok", "set_config_failed"} :
        ProposeAllocation(caps, need_pool, hook)

NextSink == Renegotiate \/ AllocationQuery

SpecSink == InitSink /\ [][NextSink]_vars

\* set_caps when the collaborators accept the format
Negotiate == \E info \in VideoInfos : SetCaps(info, "ok")

\* the allocation query upstream sends for the caps it has just negotiated
QueryNegotiated ==
    \E caps \in {framebuffersink.info} \cap VideoInfos, need_pool \in BOOLEAN,
       hook \in {"ok", "set_config_failed"} :
        ProposeAllocation(caps, need_pool, hook)

Activate == \E p \in DOMAIN pools : PoolSetActive(p)

Acquire == \E p \in DOMAIN pools : PoolAcquire(p)

Release == \E p \in DOMAIN pools : \E i \in DOMAIN pools[p].out : PoolRelease(p, i)

Deactivate == \E p \in DOMAIN pools : PoolSetInactive(p)

NextPool ==
    \/ Negotiate \/ QueryNegotiated
    \/ Activate \/ Acquire \/ Release \/ Deactivate

SpecPool == InitSink /\ [][NextPool]_vars

(* --------------------------- sink properties --------------------------- *)

\* the chain entries equal to the region of a memory
EntriesOf(mem) ==
    {i \in DOMAIN video_memory_allocator.chain :
        video_memory_allocator.chain[i] = ChainEntry(mem.data, mem.size)}

ChainBytes(i) ==
    LET e == video_memory_allocator.chain[i]
    IN  e.framebuffer_address .. (e.framebuffer_address + e.size - 1)

\* the checked-out buffers of pools built for another info than the current
OldCheckedOut ==
    {pm \in UNION {{<<p, pools[p].out[i]>> : i \in DOMAIN pools[p].out} :
                       p \in DOMAIN pools} :
        pools[pm[1]].caps # framebuffersink.info}

\* C4: after the video info has changed, the region of every buffer of an
\* older pool that is still checked out is still allocated (its entry is in
\* the chain exactly once) and overlaps no other allocated region.
C4_OldCheckedOutRegionsStayLive ==
    \A pm \in OldCheckedOut :
        /\ Cardinality(EntriesOf(pm[2])) = 1
        /\ \A i \in DOMAIN video_memory_allocator.chain :
               i \notin EntriesOf(pm[2]) => ChainBytes(i) \cap Bytes(pm[2]) = {}

\* a buffer of the old pool is out while the pool of the new info is active
\* with buffers allocated after the change
C4_Witness ==
    /\ OldCheckedOut # {}
    /\ \E q \in DOMAIN pools :
          /\ pools[q].caps = framebuffersink.info
          /\ pools[q].active
          /\ \A pm \in OldCheckedOut : pm[1] < q

\* a build loop of the last set_caps stopped at a failed allocation
BuildFailed ==
    /\ lastSink.op = "set_caps"
    /\ lastSink.build.got < lastSink.build.requested

C6_RepeatedSetCapsIsNoOp ==
    [][(lastSink'.op = "set_caps" /\ lastSink'.repeat)
          => /\ pools' = pools
             /\ video_memory_allocator' = video_memory_allocator
             /\ framebuffersink'.screens = framebuffersink.screens
             /\ framebuffersink'.overlays = framebuffersink.overlays
             /\ framebuffersink'.pool = framebuffersink.pool]_vars

\* the second of two equal announcements, after the first one built screens
C6_Witness ==
    /\ lastSink.op = "set_caps" /\ lastSink.repeat /\ lastSink.ret
    /\ framebuffersink.screens # <<>>
    /\ framebuffersink.info = lastSink.info

\* the first pool build of the last set_caps failed
PoolBuildFailed ==
    /\ lastSink.op = "set_caps"
    /\ lastSink.tries # <<>>
    /\ ~lastSink.tries[1].ok

C16_SuccessHoldsAScreen ==
    (lastSink.op = "set_caps" /\ lastSink.ret /\ lastSink.build.kind = "screens")
        => /\ lastSink.build.got >= 1
           /\ framebuffersink.nu_framebuffers_used >= 1

\* C17: the result of a failed allocation is never stored as a screen or an
\* overlay of the sink.
C17_NoFailedAllocationStored ==
    /\ \A i \in DOMAIN framebuffersink.screens : framebuffersink.screens[i] # NullMem
    /\ \A i \in DOMAIN framebuffersink.overlays : framebuffersink.overlays[i] # NullMem

\* max_overlays of set_caps: the overlays that fit behind the visible screen
MaxOverlays(s, info) ==
    (s.framebuffer_map_size - ALIGNMENT_GET_ALIGNED(ScreenBytes, s.overlay_alignment))
        \div ALIGNMENT_GET_ALIGNED(info.size, s.overlay_alignment)

\* the buffer count set_caps computes for a geometry in pool mode:
\* nu_overlays_used for a format the overlay takes, nu_framebuffers_used
\* otherwise
ComputedCount(s, info) ==
    IF info.format = "overlay" THEN MaxOverlays(s, info)
    ELSE FramebuffersUsed(s, TRUE)

OverlayMode ==
    /\ framebuffersink.use_hardware_overlay
    /\ framebuffersink.info \in VideoInfos
    /\ framebuffersink.info.format = "overlay"

\* C25: in overlay mode the sink holds a screen-sized reservation that is
\* live in the arena and shares no byte with an overlay or with a buffer of
\* a pool.
C25_ReservationLiveAndApart ==
    OverlayMode
        => LET s == framebuffersink
           IN  /\ s.screens # <<>>
               /\ s.screens[1] # NullMem
               /\ s.screens[1].size = ScreenBytes
               /\ EntriesOf(s.screens[1]) # {}
               /\ \A i \in DOMAIN s.overlays :
                     Bytes(s.overlays[i]) \cap Bytes(s.screens[1]) = {}
               /\ \A p \in DOMAIN pools :
                     \A i \in DOMAIN AllPoolMemories(pools[p]) :
                        Bytes(AllPoolMemories(pools[p])[i])
                            \cap Bytes(s.screens[1]) = {}

\* C31: at most one screen-sized reservation is live.  Stated where the
\* reservations can be told from every other region: in overlay mode after
\* the first announcement, of a video smaller than a screen, the regions of
\* screen size in the chain are the reservations, and there is at most one.
C31_AtMostOneReservation ==
    (/\ framebuffersink.use_hardware_overlay
     /\ lastSink.calls = 1
     /\ framebuffersink.info \in VideoInfos
     /\ framebuffersink.info.size # ScreenBytes)
        => Cardinality({i \in DOMAIN video_memory_allocator.chain :
                           video_memory_allocator.chain[i].size = ScreenBytes}) <= 1

\* C32: every pool that an allocation query has handed to upstream is
\* configured for at least 2 buffers.
C32_OfferedPoolHasTwoBuffers ==
    \A p \in DOMAIN pools : pools[p].upstream => pools[p].buffers >= 2

C8_PreviousPoolReferenceDropped ==
    (lastSink.op = "set_caps" /\ lastSink.replaced # NoPool)
        => ~pools[lastSink.replaced].sink_ref

(* ------------- the pool reference read during a renegotiation ---------- *)

\* the two revisions of gstframebuffersink.c: the first stores the pool in
\* set_caps, the second in gst_framebuffersink_allocate_buffer_pool
Revisions == {1, 2}

\* the video infos of the framebuffer's own format
FramebufferInfos == {i \in VideoInfos : i.format = "framebuffer"}

\* a sink started in buffer-pool mode without the hardware overlay
InitSwap ==
    /\ video_memory_allocator = video_memory_init(ArenaLen)
    /\ allocator_kind = "framebuffersink"
    /\ params_align = 0
    /\ mems = EmptyBag
    /\ last = [op |-> "init"]
    /\ ThreadsIdle
    /\ framebuffersink =
         [info |-> NoInfo,
          framebuffer_map_size |-> ArenaLen,
          use_buffer_pool |-> TRUE,
          use_hardware_overlay |-> FALSE,
          overlay_alignment |-> 0,
          max_framebuffers |-> ArenaLen \div ScreenBytes,
          nu_framebuffers_used |-> 1,
          nu_overlays_used |-> 0,
          pool |-> NoPool,
          screens |-> <<>>,
          overlays |-> <<>>]
    /\ pools = <<>>
    /\ lastSink = LastSink("init", NoInfo, TRUE, FALSE, NoPool, NoBuild, 0)
    /\ revision \in Revisions

\* g_mutex_lock (&framebuffersink->flow_lock)
g_mutex_lock(t) ==
    /\ lock_owner = NoThread
    /\ lock_owner' = t

\* g_mutex_unlock (&framebuffersink->flow_lock) by the thread that locked it
g_mutex_unlock(t) == lock_owner' = NoThread

\* the lock that guards framebuffersink->pool: the object lock in the first
\* revision, flow_lock in the second
PoolLock(t) == IF revision = 1 THEN GST_OBJECT_LOCK(t) ELSE g_mutex_lock(t)

PoolUnlock(t) == IF revision = 1 THEN GST_OBJECT_UNLOCK(t) ELSE g_mutex_unlock(t)

\* set_caps from its entry to the call of allocate_buffer_pool; without a
\* pool to build it runs to its end
SwapSetCaps(t, info) ==
    LET s   == framebuffersink
        ubp == s.use_buffer_pool /\ s.max_framebuffers >= 2
        w   == Finish(reconfigure(World, info, "ok"), info)
    IN  /\ pc[t] = "idle"
        /\ \A u \in Threads : call[u].op # "set_caps"
        /\ lastSink.calls < MaxSetCaps
        /\ Len(pools) < MaxPools
        /\ lastSink' = LastSink("set_caps", info, TRUE, FALSE, NoPool, NoBuild,
                                lastSink.calls + 1)
        /\ IF SameInfo(info, s.info)
           THEN UNCHANGED <<video_memory_allocator, framebuffersink, pc, call>>
           ELSE IF ubp
           THEN /\ framebuffersink' =
                       [s EXCEPT !.nu_framebuffers_used = FramebuffersUsed(s, TRUE)]
                /\ call' = [call EXCEPT ![t] =
                              [op |-> "set_caps", info |-> info,
                               newpool |-> NoPool, oldpool |-> NoPool]]
                /\ Goto(t, IF revision = 1 THEN "abp_create" ELSE "abp_lock")
                /\ UNCHANGED video_memory_allocator
           ELSE IF revision = 1
           THEN /\ framebuffersink' = w.sink
                /\ video_memory_allocator' = w.vm
                /\ UNCHANGED <<pc, call>>
           ELSE /\ framebuffersink' =
                       [s EXCEPT !.use_buffer_pool = FALSE,
                                 !.nu_framebuffers_used = FramebuffersUsed(s, FALSE),
                                 !.info = info]
                /\ UNCHANGED <<video_memory_allocator, pc, call>>
        /\ UNCHANGED <<allocator_kind, params_align, mems, last, lock_owner,
                       drm_total_allocated, pools, revision>>

\* first revision: gst_framebuffersink_allocate_buffer_pool creates and
\* configures the pool and returns it
AbpCreate(t) ==
    /\ pc[t] = "abp_create"
    /\ pools' = Append(pools, GstBufferPool(call[t].info, call[t].info.size,
                                            PoolBuffers(framebuffersink),
                                            allocation_params_init(framebuffersink)))
    /\ call' = [call EXCEPT ![t].newpool = Len(pools) + 1]
    /\ Goto(t, "sc_store")
    /\ UNCHANGED <<allocVars, lock_owner, drm_total_allocated, framebuffersink,
                   lastSink, revision>>

\* first revision: framebuffersink->pool = pool, no lock held and the old
\* pool not unreferenced; then finish:
ScStore(t) ==
    /\ pc[t] = "sc_store"
    /\ framebuffersink' = [framebuffersink EXCEPT !.pool = call[t].newpool,
                                                  !.info = call[t].info]
    /\ Return(t)
    /\ UNCHANGED <<allocVars, lock_owner, drm_total_allocated, pools, lastSink,
                   revision>>

\* second revision: the allocation table is configured, then g_mutex_lock at
\* the top of allocate_buffer_pool
AbpLock(t) ==
    /\ pc[t] = "abp_lock"
    /\ g_mutex_lock(t)
    /\ Goto(t, "abp_swap")
    /\ UNCHANGED <<allocVars, drm_total_allocated, call, sinkVars>>

\* second revision: the pool is created and configured, oldpool = pool,
\* pool = newpool, g_mutex_unlock
AbpSwap(t) ==
    /\ pc[t] = "abp_swap"
    /\ pools' = Append(pools, GstBufferPool(call[t].info, call[t].info.size,
                                            framebuffersink.nu_framebuffers_used, 3))
    /\ call' = [call EXCEPT ![t].newpool = Len(pools) + 1,
                            ![t].oldpool = framebuffersink.pool]
    /\ framebuffersink' = [framebuffersink EXCEPT !.pool = Len(pools) + 1]
    /\ g_mutex_unlock(t)
    /\ Goto(t, "abp_unref")
    /\ UNCHANGED <<allocVars, drm_total_allocated, lastSink, revision>>

\* second revision: if (oldpool) gst_object_unref (oldpool)
AbpUnref(t) ==
    /\ pc[t] = "abp_unref"
    /\ pools' = IF call[t].oldpool # NoPool
                THEN [pools EXCEPT ![call[t].oldpool].sink_ref = FALSE]
                ELSE pools
    /\ Goto(t, "abp_activate")
    /\ UNCHANGED <<allocVars, lock_owner, drm_total_allocated, call,
                   framebuffersink, lastSink, revision>>

\* second revision: gst_buffer_pool_set_active (framebuffersink->pool, TRUE),
\* the pool read without the lock. With a NULL pool the call fails,
\* activation_failed unlocks flow_lock, which this thread does not hold (the
\* mutex is released or left alone), and set_caps falls back to non-pool mode
AbpActivate(t) ==
    LET s == framebuffersink
    IN  /\ pc[t] = "abp_activate"
        /\ IF s.pool # NoPool
           THEN /\ pools' = [pools EXCEPT ![s.pool].active = TRUE]
                /\ framebuffersink' = [s EXCEPT !.info = call[t].info]
                /\ UNCHANGED lock_owner
           ELSE /\ lock_owner' \in {lock_owner, NoThread}
                /\ framebuffersink' =
                       [s EXCEPT !.use_buffer_pool = FALSE,
                                 !.nu_framebuffers_used = FramebuffersUsed(s, FALSE),
                                 !.info = call[t].info]
                /\ UNCHANGED pools
        /\ Return(t)
        /\ UNCHANGED <<allocVars, drm_total_allocated, lastSink, revision>>

\* propose_allocation up to the lock around the read of the pool
PaLock(t, caps, need_pool) ==
    /\ pc[t] = "idle"
    /\ PoolLock(t)
    /\ call' = [call EXCEPT ![t] = [op |-> "propose_allocation", caps |-> caps,
                                    need_pool |-> need_pool, pool |-> NoPool]]
    /\ Goto(t, "pa_read")
    /\ UNCHANGED <<allocVars, drm_total_allocated, sinkVars>>

\* pool = framebuffersink->pool ? gst_object_ref (framebuffersink->pool) : NULL
PaRead(t) ==
    /\ pc[t] = "pa_read"
    /\ call' = [call EXCEPT ![t].pool = framebuffersink.pool]
    /\ PoolUnlock(t)
    /\ Goto(t, "pa_check")
    /\ UNCHANGED <<allocVars, drm_total_allocated, sinkVars>>

\* the caps of the pool are compared with those of the query; the second
\* revision refuses the query when the pool has been given away, and adds a
\* matching pool to the query before it takes the lock again
PaCheck(t) ==
    LET p     == call[t].pool
        match == p # NoPool /\ pools[p].caps = call[t].caps
    IN  /\ pc[t] = "pa_check"
        /\ IF revision = 2 /\ framebuffersink.use_buffer_pool /\ p = NoPool
           THEN Return(t) /\ UNCHANGED pools
           ELSE /\ call' = [call EXCEPT ![t].pool = IF match THEN p ELSE NoPool]
                /\ Goto(t, IF match THEN "pa_take_lock" ELSE "pa_answer")
                /\ pools' = IF match /\ revision = 2
                            THEN [pools EXCEPT ![p].upstream = TRUE]
                            ELSE pools
        /\ UNCHANGED <<allocVars, lock_owner, drm_total_allocated,
                       framebuffersink, lastSink, revision>>

\* the lock around framebuffersink->pool = NULL
PaTakeLock(t) ==
    /\ pc[t] = "pa_take_lock"
    /\ PoolLock(t)
    /\ Goto(t, "pa_take")
    /\ UNCHANGED <<allocVars, drm_total_allocated, call, sinkVars>>

\* framebuffersink->pool = NULL
PaTake(t) ==
    /\ pc[t] = "pa_take"
    /\ framebuffersink' = [framebuffersink EXCEPT !.pool = NoPool]
    /\ PoolUnlock(t)
    /\ Goto(t, "pa_answer")
    /\ UNCHANGED <<allocVars, drm_total_allocated, call, pools, lastSink,
                   revision>>

\* the rest of propose_allocation: the first revision may build another pool
\* in overlay mode and answers the query with the pool it holds; without a
\* pool the query gets a system memory pool
PaAnswer(t) ==
    LET s       == framebuffersink
        another == /\ revision = 1
                   /\ s.use_buffer_pool /\ call[t].pool = NoPool /\ call[t].need_pool
                   /\ video_memory_get_available(video_memory_allocator)
                          >= call[t].caps.size * 2
                   /\ s.use_hardware_overlay
        a       == allocate_buffer_pool(World, call[t].caps, "ok")
        w       == IF another THEN a.w ELSE World
        pool    == IF another THEN a.pool ELSE call[t].pool
    IN  /\ pc[t] = "pa_answer"
        /\ Len(w.pools) <= MaxPools
        /\ framebuffersink' = w.sink
        /\ video_memory_allocator' = w.vm
        /\ pools' = IF pool # NoPool /\ revision = 1
                    THEN [w.pools EXCEPT ![pool] = QueryAnswer(@, w.sink, call[t].caps)]
                    ELSE w.pools
        /\ Return(t)
        /\ UNCHANGED <<allocator_kind, params_align, mems, last, lock_owner,
                       drm_total_allocated, lastSink, revision>>

SetCapsCall == \E t \in Threads, info \in FramebufferInfos : SwapSetCaps(t, info)

SetCapsStep == \E t \in Threads : AbpCreate(t) \/ ScStore(t)

AllocatePoolStep == \E t \in Threads : AbpLock(t) \/ AbpSwap(t) \/ AbpUnref(t)

ActivatePoolStep == \E t \in Threads : AbpActivate(t)

QueryCall == \E t \in Threads, caps \in FramebufferInfos, need_pool \in BOOLEAN :
                 PaLock(t, caps, need_pool)

QueryStep == \E t \in Threads :
                 PaRead(t) \/ PaCheck(t) \/ PaTakeLock(t) \/ PaTake(t) \/ PaAnswer(t)

NextSwap ==
    \/ SetCapsCall \/ SetCapsStep \/ AllocatePoolStep \/ ActivatePoolStep
    \/ QueryCall \/ QueryStep

SpecSwap == InitSwap /\ [][NextSwap]_vars

\* a pool whose builder, gst_framebuffersink_allocate_buffer_pool, has not
\* returned yet
UnderConstruction(p) ==
    \E t \in Threads :
        /\ call[t].op = "set_caps"
        /\ call[t].newpool = p
        /\ pc[t] # "sc_store"

\* C7: a propose_allocation that runs while set_caps replaces the pool holds,
\* after its read of framebuffersink->pool, either no pool, the old pool or
\* the new pool once built: never a pool whose build has not finished.
C7_ReaderSeesCompletePool ==
    \A t \in Threads :
        (call[t].op = "propose_allocation" /\ call[t].pool # NoPool)
            => ~UnderConstruction(call[t].pool)

\* C39: flow_lock changes hands only in a step of the thread that holds it
\* (it is unlocked by its holder, never by a function that has unlocked it
\* already), and a function that returns does not hold it.
C39_FlowLockReleasedByHolderOnce ==
    [][revision = 2 =>
          /\ (lock_owner # NoThread /\ lock_owner' # lock_owner)
                 => pc'[lock_owner] # pc[lock_owner]
          /\ \A t \in Threads : pc'[t] = "idle" => lock_owner' # t]_vars

(* ------------- equal allocations behind a reservation ------------------ *)

\* the multiples of align + 1 from lo to hi
Multiples(align, lo, hi) == {n \in lo..hi : n % (align + 1) = 0}

\* an arena in which at most the first visible screen is reserved, and the
\* size and mask of the buffers that will be asked for
InitFill ==
    /\ \E align \in AlignMasks :
       \E R \in Multiples(align, 0, ArenaLen), S \in Multiples(align, 1, ArenaLen + 1) :
          LET r == VideoMemoryAlloc(video_memory_init(ArenaLen), R, 0)
          IN  /\ video_memory_allocator =
                     IF R = 0 THEN video_memory_init(ArenaLen) ELSE r.vm
              /\ mems = IF R = 0 THEN EmptyBag ELSE SetToBag({r.mem})
              /\ params_align = align
              /\ last = [op |-> "fill", R |-> R, S |-> S, align |-> align,
                         k |-> 0, failed |-> FALSE]
    /\ allocator_kind \in AllocatorKinds
    /\ ThreadsIdle
    /\ SinkIdle

\* the next allocate of the series
FillAlloc ==
    LET r == VideoMemoryAlloc(video_memory_allocator, last.S, AppliedAlign(last.align))
    IN  /\ last.op = "fill" /\ ~last.failed
        /\ video_memory_allocator' = r.vm
        /\ mems' = IF r.mem = NullMem THEN mems ELSE mems (+) SetToBag({r.mem})
        /\ last' = IF r.mem = NullMem THEN [last EXCEPT !.failed = TRUE]
                   ELSE [last EXCEPT !.k = @ + 1]
        /\ UNCHANGED <<allocator_kind, params_align, threadVars, sinkVars>>

NextFill == FillAlloc

SpecFill == InitFill /\ [][NextFill]_vars

\* the buffers of the series, without the reservation
FillBuffers ==
    {m \in BagToSet(mems) : ~(last.R > 0 /\ m = GstMemory(0, last.R))}

\* C13: behind a reservation of R bytes at offset 0, allocations of equal
\* size S and mask a (R and S multiples of a + 1) succeed with distinct,
\* aligned, in-bounds offsets as long as R + k * S <= L, and the allocation
\* after the last one that fits fails.
C13_EqualAllocationsFillArena ==
    last.op = "fill" =>
        /\ last.R + last.k * last.S <= ArenaLen
        /\ last.failed => last.R + (last.k + 1) * last.S > ArenaLen
        /\ \A m \in BagToSet(mems) : CopiesIn(m, mems) = 1
        /\ Cardinality(FillBuffers) = last.k
        /\ \A m \in FillBuffers :
              /\ m.size = last.S
              /\ m.data % (last.align + 1) = 0
              /\ m.data >= last.R
              /\ m.data + m.size <= ArenaLen

\* two buffers behind a reservation were handed out with a mask, and the
\* third request failed
C13_Witness ==
    /\ last.op = "fill" /\ last.failed
    /\ last.k >= 2 /\ last.R > 0 /\ last.align >= 1


(* ------------------------------- teardown ------------------------------ *)

\* the memories of the buffers of every pool, queued or checked out
PoolBufferHandles ==
    UNION {{<<p, m>> : m \in {AllPoolMemories(pools[p])[i] :
                                 i \in DOMAIN AllPoolMemories(pools[p])}} :
              p \in DOMAIN pools}

\* gst_framebuffersink_stop with a munmap that succeeds: the display is
\* panned back, the arena is unmapped, and then the pool of pool mode is
\* unreferenced; a pool that loses its last reference stops and gives its
\* queued buffers back to the allocator.  at_munmap is what was live when
\* munmap was called.
gst_framebuffersink_stop ==
    LET s     == framebuffersink
        vm    == video_memory_allocator
        unref == s.use_buffer_pool /\ s.pool # NoPool
        final == unref /\ ~pools[s.pool].upstream
    IN  /\ lastSink.op # "stop"
        /\ lastSink' = [op |-> "stop", ret |-> TRUE, calls |-> lastSink.calls,
                        at_munmap |-> [handles |-> PoolBufferHandles,
                                       pool |-> s.pool,
                                       chain |-> vm.chain]]
        /\ framebuffersink' = [s EXCEPT !.pool = IF unref THEN NoPool ELSE @]
        /\ pools' = IF unref
                    THEN [pools EXCEPT ![s.pool].sink_ref = FALSE,
                                       ![s.pool].active = IF final THEN FALSE ELSE @,
                                       ![s.pool].queue = IF final THEN <<>> ELSE @]
                    ELSE pools
        /\ video_memory_allocator' =
               IF final THEN FreeAll(vm, StoppedMemories(pools[s.pool])) ELSE vm
        /\ UNCHANGED <<allocator_kind, params_align, mems, last, threadVars, revision>>

\* the calls the pipeline makes while the sink is started
Started ==
    /\ lastSink.op # "stop"
    /\ Renegotiate \/ QueryNegotiated \/ Activate \/ Acquire

NextStop ==
    \/ Started
    \/ Release \/ Deactivate
    \/ gst_framebuffersink_stop

SpecStop == InitSink /\ [][NextStop]_vars

\* C18: after stop has returned, the sink's pool reference is cleared and no
\* region is live in the arena.
C18_StopReleasesEverything ==
    (lastSink.op = "stop" /\ lastSink.ret)
        => /\ framebuffersink.pool = NoPool
           /\ video_memory_allocator.chain = <<>>
           /\ video_memory_allocator.total_allocated = 0

\* C19: when stop unmaps the arena, no buffer of a pool is live, queued or
\* checked out.
C19_NoHandleLiveAtMunmap ==
    lastSink.op = "stop" => lastSink.at_munmap.handles = {}


(* ----------------- display calls and the allocator lock ---------------- *)

\* the positions at which a thread is inside FBIO_WAITFORVSYNC,
\* FBIOPAN_DISPLAY or klass->show_overlay
DisplayCalls == {"wait_for_vsync", "pan_display", "show_overlay"}

\* no invalid pointer has been dereferenced: the process is alive
NoFault == \A t \in Threads : pc[t] # "fault"

InitShow ==
    /\ video_memory_allocator = video_memory_init(ArenaLen)
    /\ allocator_kind = "framebuffersink"
    /\ params_align \in {0, 3}
    /\ mems = EmptyBag
    /\ last = [op |-> "init"]
    /\ ThreadsIdle
    /\ SinkIdle

\* show_frame_overlay, a buffer of system memory in pool mode: the call of
\* gst_framebuffersink_video_memory_alloc up to GST_OBJECT_LOCK
ShowOverlayAllocLock(t, size) ==
    /\ NoFault
    /\ pc[t] = "idle"
    /\ GST_OBJECT_LOCK(t)
    /\ Goto(t, "so_alloc")
    /\ call' = [call EXCEPT ![t] = [op |-> "show_frame_overlay", size |-> size,
                                    vmem |-> NullMem]]
    /\ UNCHANGED <<allocVars, drm_total_allocated, sinkVars>>

\* an allocation that returns NULL without the unlock
ShowOverlayAllocBodyKeepsLock(t) ==
    LET vm     == video_memory_allocator
        offset == AllocOffset(vm, call[t].size, params_align)
        mem    == IF offset = NoMem THEN NullMem ELSE GstMemory(offset, call[t].size)
    IN  /\ NoFault
        /\ pc[t] = "so_alloc"
        /\ video_memory_allocator' =
               IF offset = NoMem THEN vm ELSE AllocCommit(vm, call[t].size, offset)
        /\ IF offset = NoMem THEN UNCHANGED lock_owner ELSE GST_OBJECT_UNLOCK(t)
        /\ call' = [call EXCEPT ![t].vmem = mem]
        /\ Goto(t, "put_overlay_image_memcpy")
        /\ UNCHANGED <<allocator_kind, params_align, mems, last,
                       drm_total_allocated, sinkVars>>

\* the body of the allocation, ending with the unlock; vmem is not tested
ShowOverlayAllocBody(t) ==
    LET vm     == video_memory_allocator
        offset == AllocOffset(vm, call[t].size, params_align)
        mem    == IF offset = NoMem THEN NullMem ELSE GstMemory(offset, call[t].size)
    IN  /\ NoFault
        /\ pc[t] = "so_alloc"
        /\ video_memory_allocator' =
               IF offset = NoMem THEN vm ELSE AllocCommit(vm, call[t].size, offset)
        /\ GST_OBJECT_UNLOCK(t)
        /\ call' = [call EXCEPT ![t].vmem = mem]
        /\ Goto(t, "put_overlay_image_memcpy")
        /\ UNCHANGED <<allocator_kind, params_align, mems, last,
                       drm_total_allocated, sinkVars>>

\* put_overlay_image_memcpy up to klass->show_overlay: the frame is copied
\* to the mapping of vmem; with a NULL vmem the copy goes through an
\* uninitialised pointer and either faults or passes
ShowOverlayCopy(t, faults) ==
    /\ NoFault
    /\ pc[t] = "put_overlay_image_memcpy"
    /\ faults => call[t].vmem = NullMem
    /\ Goto(t, IF faults THEN "fault" ELSE "show_overlay")
    /\ UNCHANGED <<allocVars, lock_owner, call, drm_total_allocated, sinkVars>>

\* klass->show_overlay returns; gst_framebuffersink_video_memory_free takes
\* the lock
ShowOverlayFreeLock(t) ==
    /\ NoFault
    /\ pc[t] = "show_overlay"
    /\ call[t].op = "show_frame_overlay"
    /\ GST_OBJECT_LOCK(t)
    /\ Goto(t, "so_free")
    /\ UNCHANGED <<allocVars, call, drm_total_allocated, sinkVars>>

\* the body of the free: a NULL vmem is dereferenced under the lock
ShowOverlayFreeBody(t) ==
    /\ NoFault
    /\ pc[t] = "so_free"
    /\ IF call[t].vmem = NullMem
       THEN /\ Goto(t, "fault")
            /\ UNCHANGED <<video_memory_allocator, lock_owner, call>>
       ELSE /\ video_memory_allocator' =
                   FreeCommit(video_memory_allocator, call[t].vmem)
            /\ GST_OBJECT_UNLOCK(t)
            /\ Return(t)
    /\ UNCHANGED <<allocator_kind, params_align, mems, last,
                   drm_total_allocated, sinkVars>>

\* show_frame_memcpy, put_image_pan and show_frame_overlay for a buffer of
\* video memory: gst_framebuffersink_wait_for_vsync, when vsync is set
WaitForVsyncCall(t, then) ==
    /\ NoFault
    /\ pc[t] = "idle"
    /\ Goto(t, "wait_for_vsync")
    /\ call' = [call EXCEPT ![t] = [op |-> "show_frame", then |-> then]]
    /\ UNCHANGED <<allocVars, lock_owner, drm_total_allocated, sinkVars>>

\* the ioctl returns; the pan or the overlay call follows
WaitForVsyncReturn(t) ==
    /\ NoFault
    /\ pc[t] = "wait_for_vsync"
    /\ Goto(t, call[t].then)
    /\ UNCHANGED <<allocVars, lock_owner, call, drm_total_allocated, sinkVars>>

\* gst_framebuffersink_pan_display or klass->show_overlay returns, and with
\* it show_frame
DisplayReturn(t) ==
    /\ NoFault
    /\ pc[t] \in {"pan_display", "show_overlay"}
    /\ call[t].op = "show_frame"
    /\ Return(t)
    /\ UNCHANGED <<allocVars, lock_owner, drm_total_allocated, sinkVars>>

\* show_frame_overlay for a frame in system memory while a pool is in use,
\* the show_frame paths that allocate nothing, and a pool that allocates or
\* frees one buffer through the allocator
NextShow ==
    \E t \in Threads :
        \/ \E size \in 1..MaxFrameSize : ShowOverlayAllocLock(t, size)
        \/ ShowOverlayAllocBody(t)
        \/ \E faults \in BOOLEAN : ShowOverlayCopy(t, faults)
        \/ ShowOverlayFreeLock(t)
        \/ ShowOverlayFreeBody(t)
        \/ \E then \in {"pan_display", "show_overlay"} : WaitForVsyncCall(t, then)
        \/ WaitForVsyncReturn(t)
        \/ DisplayReturn(t)
        \/ NoFault /\ VmAllocLock(t, ScreenBytes, params_align)
        \/ NoFault /\ VmAllocBody(t)
        \/ NoFault /\ \E mem \in BagToSet(mems) : VmFreeLock(t, mem)
        \/ NoFault /\ VmFreeBody(t)

SpecShow == InitShow /\ [][NextShow]_vars

\* C20: a thread that is inside a vsync wait, a pan or an overlay display
\* call does not hold the allocator's lock.
C20_NoDisplayCallUnderAllocatorLock ==
    \A t \in Threads : pc[t] \in DisplayCalls => lock_owner # t

\* one thread is inside the overlay display call of show_frame_overlay,
\* between its allocation and its free, while the other holds the lock
C20_Witness ==
    \E t \in Threads :
        /\ pc[t] = "show_overlay"
        /\ call[t].op = "show_frame_overlay"
        /\ call[t].vmem # NullMem
        /\ lock_owner \in Threads \ {t}


(* ------------------------- the buffer count policy --------------------- *)

\* an overlay count without the cap of 30
OverlayCountUncapped(s, max_overlays) == max_overlays

\* max_overlays after the limit on the number of overlays
OverlayCount(s, max_overlays) ==
    IF s.max_video_memory_property # -2 /\ max_overlays > 30
    THEN 30 ELSE max_overlays

\* nu_framebuffers_used as set below the label reconfigure, with the
\* flip-buffers and max-video-memory properties
FramebuffersUsedPolicy(s, pool_mode) ==
    IF s.max_framebuffers >= 2
    THEN IF pool_mode
         THEN IF /\ s.flip_buffers = 0 /\ s.max_framebuffers > 10
                 /\ s.max_video_memory_property # -2
              THEN 10 ELSE s.max_framebuffers
         ELSE IF s.flip_buffers = 0 /\ s.max_framebuffers > 3
              THEN 3 ELSE s.max_framebuffers
    ELSE s.nu_framebuffers_used

\* the buffer counts and the mode gst_framebuffersink_set_caps chooses for a
\* video info; native tells whether the overlay alignment allows a pool
buffer_counts(s, info, prepared, native) ==
    LET s1  == [s EXCEPT !.max_framebuffers =
                   IF s.flip_buffers > 0 /\ s.flip_buffers < @
                   THEN s.flip_buffers ELSE @]
        max_overlays == OverlayCount(s1, MaxOverlays(s1, info))
        use_overlay  == /\ info.format = "overlay"
                        /\ s1.use_hardware_overlay
                        /\ max_overlays >= 2
                        /\ prepared
        pool_ov == s1.use_buffer_pool /\ native
        ubp     == s1.use_buffer_pool /\ s1.max_framebuffers >= 2
    IN  IF use_overlay
        THEN [s1 EXCEPT !.nu_framebuffers_used = s1.max_framebuffers,
                        !.nu_overlays_used =
                            IF pool_ov THEN max_overlays ELSE Min(max_overlays, 8),
                        !.use_buffer_pool = pool_ov,
                        !.info = info]
        ELSE IF info.format = "overlay"
             THEN [s1 EXCEPT !.use_hardware_overlay = FALSE]
             ELSE [s1 EXCEPT !.use_hardware_overlay = FALSE,
                             !.use_buffer_pool = ubp,
                             !.nu_framebuffers_used = FramebuffersUsedPolicy(s1, ubp),
                             !.info = info]

\* the properties as the application set them and the device as
\* gst_framebuffersink_open_device found it
InitCount ==
    /\ video_memory_allocator = video_memory_init(ArenaLen)
    /\ allocator_kind = "framebuffersink"
    /\ params_align = 0
    /\ mems = EmptyBag
    /\ last = [op |-> "init"]
    /\ ThreadsIdle
    /\ \E map_size \in ScreenBytes..MaxMapSize :
          framebuffersink \in
              [info : {NoInfo},
               framebuffer_map_size : {map_size},
               max_framebuffers : {map_size \div ScreenBytes},
               flip_buffers : 0..MaxFlipBuffers,
               max_video_memory_property : {-2, 0},
               use_buffer_pool : BOOLEAN,
               use_hardware_overlay : BOOLEAN,
               overlay_alignment : {0},
               nu_framebuffers_used : {1},
               nu_overlays_used : {0}]
    /\ pools = <<>>
    /\ lastSink = [op |-> "init", calls |-> 0]
    /\ revision = 1

\* one set_caps, as far as the buffer counts go
ChooseCounts ==
    /\ lastSink.calls < MaxSetCaps
    /\ \E info \in VideoInfos, prepared \in BOOLEAN, native \in BOOLEAN :
          /\ ~SameInfo(info, framebuffersink.info)
          /\ framebuffersink' = buffer_counts(framebuffersink, info, prepared, native)
          /\ lastSink' = [op |-> "set_caps", calls |-> lastSink.calls + 1,
                          info |-> info,
                          ret |-> framebuffersink'.info = info,
                          max_overlays |-> MaxOverlays(framebuffersink, info)]
    /\ UNCHANGED <<allocVars, threadVars, pools, revision>>

SpecCount == InitCount /\ [][ChooseCounts]_vars

\* C24: without the aggressive setting and without a flip-buffers count, a
\* set_caps that returns TRUE chooses at most 30 overlays, and at most 10
\* framebuffers in pool mode without the overlay.
C24_CountsWithinPolicyCap ==
    LET s == framebuffersink
    IN  (/\ lastSink.op = "set_caps" /\ lastSink.ret
         /\ s.flip_buffers = 0
         /\ s.max_video_memory_property # -2)
            => /\ s.nu_overlays_used <= 30
               /\ (s.use_buffer_pool /\ ~s.use_hardware_overlay)
                      => s.nu_framebuffers_used <= 10

\* more than 30 overlays fit and 30 are used
C24_Witness ==
    /\ lastSink.op = "set_caps" /\ lastSink.ret
    /\ framebuffersink.flip_buffers = 0
    /\ framebuffersink.max_video_memory_property # -2
    /\ framebuffersink.use_hardware_overlay
    /\ framebuffersink.info = lastSink.info
    /\ lastSink.max_overlays > 30
    /\ framebuffersink.nu_overlays_used = 30


\* C35: a call of gst_framebuffersink_video_memory_alloc that finds no room
\* returns with the chain, end_marker and total_allocated as they were, and
\* with the allocator's lock released.
C35_FailedAllocChangesNothing ==
    [][\A t \in Threads :
          LET vm      == video_memory_allocator
              failing ==
                  \/ /\ pc[t] = "vm_alloc"
                     /\ AllocOffset(vm, call[t].size, call[t].align) = NoMem
                  \/ /\ pc[t] = "so_alloc"
                     /\ AllocOffset(vm, call[t].size, params_align) = NoMem
          IN  (failing /\ pc'[t] # pc[t])
                  => /\ video_memory_allocator' = vm
                     /\ lock_owner' = NoThread]_vars

\* an allocation in a filled arena has returned NULL to show_frame_overlay
C35_Witness ==
    \E t \in Threads :
        /\ pc[t] = "put_overlay_image_memcpy"
        /\ call[t].vmem = NullMem
        /\ lock_owner = NoThread
        /\ video_memory_allocator.chain # <<>>

(* ------------------------------ show_frame ----------------------------- *)

\* a vsync wait that leaves vsync set when the ioctl fails
wait_for_vsync_keeping(s, fails) == s

\* gst_framebuffersink_wait_for_vsync; fails is the result of the ioctl
wait_for_vsync(s, fails) ==
    IF fails THEN [s EXCEPT !.vsync = FALSE] ELSE s

\* gst_framebuffersink_pan_to_framebuffer: the display shows the slot, unless
\* the ioctl fails
pan_to_framebuffer(s, buffer, fails) ==
    IF fails THEN s ELSE [s EXCEPT !.yoffset = buffer]

\* no pan was issued
NoSlot == -1

\* the sink after gst_framebuffersink_show_frame_memcpy, and what the call
\* did: the slot copied to, the slot panned to, the vsync waits issued
show_frame_memcpy(s, wait_fails, pan_fails) ==
    LET n      == s.nu_framebuffers_used
        before == n = 1 /\ s.vsync
        s1     == IF before THEN wait_for_vsync(s, wait_fails) ELSE s
        copied == s1.current_framebuffer_index
        flip   == n >= 2 /\ s1.vsync
        after  == flip /\ ~s1.pan_does_vsync
        s2     == IF after THEN wait_for_vsync(s1, wait_fails) ELSE s1
        s3     == IF flip
                  THEN [pan_to_framebuffer(s2, copied, pan_fails) EXCEPT
                           !.current_framebuffer_index =
                               IF copied + 1 >= n THEN 0 ELSE copied + 1]
                  ELSE s2
    IN  [sink |-> s3, copied |-> copied,
         panned |-> IF flip THEN copied ELSE NoSlot,
         waits |-> (IF before THEN 1 ELSE 0) + (IF after THEN 1 ELSE 0),
         wait_failed |-> (before \/ after) /\ wait_fails]

\* the sink after start and a set_caps in non-pool mode: the properties as
\* the application set them, the first slot displayed
InitFrame ==
    /\ video_memory_allocator = video_memory_init(ArenaLen)
    /\ allocator_kind = "framebuffersink"
    /\ params_align = 0
    /\ mems = EmptyBag
    /\ last = [op |-> "init"]
    /\ ThreadsIdle
    /\ framebuffersink \in
          [vsync : BOOLEAN,
           pan_does_vsync : BOOLEAN,
           use_buffer_pool : {FALSE},
           nu_framebuffers_used : 1..(ArenaLen \div ScreenBytes),
           current_framebuffer_index : {0},
           yoffset : {0}]
    /\ pools = <<>>
    /\ lastSink = [op |-> "init", calls |-> 0, page_flip |-> framebuffersink.vsync,
                   failed_before |-> FALSE]
    /\ revision = 1

\* one frame of system memory is shown
ShowFrameMemcpy ==
    /\ lastSink.calls < MaxFrames
    /\ \E wait_fails \in BOOLEAN, pan_fails \in BOOLEAN :
          \E r \in {show_frame_memcpy(framebuffersink, wait_fails, pan_fails)} :
              /\ framebuffersink' = r.sink
              /\ lastSink' = [op |-> "show_frame", calls |-> lastSink.calls + 1,
                              ret |-> "GST_FLOW_OK",
                              page_flip |-> lastSink.page_flip,
                              failed_before |-> lastSink.failed_before
                                  \/ (lastSink.op = "show_frame" /\ lastSink.wait_failed),
                              copied |-> r.copied, panned |-> r.panned,
                              waits |-> r.waits, wait_failed |-> r.wait_failed]
    /\ UNCHANGED <<allocVars, threadVars, pools, revision>>

SpecFrame == InitFrame /\ [][ShowFrameMemcpy]_vars

\* C26: a frame whose vsync wait failed leaves vsync disabled, is copied to
\* a slot and, with two or more slots, panned to, and returns GST_FLOW_OK;
\* no frame after it waits for vsync.
C26_VsyncFailureDisablesVsync ==
    lastSink.op = "show_frame"
        => /\ lastSink.wait_failed
                => /\ ~framebuffersink.vsync
                   /\ lastSink.ret = "GST_FLOW_OK"
                   /\ framebuffersink.nu_framebuffers_used >= 2
                         => lastSink.panned = lastSink.copied
           /\ lastSink.failed_before
                => /\ lastSink.waits = 0
                   /\ ~framebuffersink.vsync

\* a frame has been shown after the frame whose vsync wait failed
C26_Witness ==
    /\ lastSink.op = "show_frame"
    /\ lastSink.failed_before
    /\ framebuffersink.nu_framebuffers_used >= 2

\* C27: with n >= 2 slots and vsync set when streaming started, frame k
\* (counted from 0) is copied to slot k mod n, and that slot is panned to.
C27_SlotsUsedRoundRobin ==
    (/\ lastSink.op = "show_frame"
     /\ lastSink.page_flip
     /\ framebuffersink.nu_framebuffers_used >= 2)
        => /\ lastSink.copied
                 = (lastSink.calls - 1) % framebuffersink.nu_framebuffers_used
           /\ lastSink.panned = lastSink.copied


(* ------------------- frames shown between renegotiations --------------- *)

\* gst_framebuffersink_show_frame_overlay for a frame in system memory: the
\* world after the call, the slot selected and the number of slots, the
\* region written to and the region the overlay hardware is told to show
show_frame_overlay(w) ==
    LET s == w.sink
        r == VideoMemoryAlloc(w.vm, s.info.size, s.overlay_alignment)
        i == s.current_overlay_index
        m == IF i + 1 <= Len(s.overlays) THEN s.overlays[i + 1] ELSE NullMem
    IN  IF s.use_buffer_pool
        THEN [w |-> [w EXCEPT
                       !.vm = IF r.mem = NullMem THEN @ ELSE FreeCommit(r.vm, r.mem),
                       !.sink.stats_video_frames_system_memory = @ + 1],
              slot |-> NoSlot, slots |-> s.nu_overlays_used,
              dest |-> r.mem, shown |-> r.mem]
        ELSE [w |-> [w EXCEPT
                       !.sink.current_overlay_index =
                           IF i + 1 >= s.nu_overlays_used THEN 0 ELSE i + 1,
                       !.sink.stats_overlay_frames_system_memory = @ + 1],
              slot |-> i, slots |-> s.nu_overlays_used,
              dest |-> m, shown |-> m]

\* gst_framebuffersink_show_frame for a frame in system memory; in pool mode
\* put_image_memcpy writes to the start of the framebuffer
show_frame(w, wait_fails, pan_fails) ==
    LET s == w.sink
        r == show_frame_memcpy(s, wait_fails, pan_fails)
    IN  IF s.use_hardware_overlay THEN show_frame_overlay(w)
        ELSE [w |-> [w EXCEPT
                       !.sink = [r.sink EXCEPT
                                   !.stats_video_frames_system_memory = @ + 1]],
              slot |-> IF s.use_buffer_pool THEN NoSlot ELSE r.copied,
              slots |-> s.nu_framebuffers_used,
              dest |-> IF s.use_buffer_pool THEN GstMemory(0, ScreenBytes)
                       ELSE IF r.copied + 1 <= Len(s.screens)
                            THEN s.screens[r.copied + 1] ELSE NullMem,
              shown |-> NullMem]

\* the sink after gst_framebuffersink_start, with the fields the show_frame
\* paths use; vsync and pan_does_vsync have their default values
InitSlots ==
    /\ video_memory_allocator = video_memory_init(ArenaLen)
    /\ allocator_kind = "framebuffersink"
    /\ params_align = 0
    /\ mems = EmptyBag
    /\ last = [op |-> "init"]
    /\ ThreadsIdle
    /\ framebuffersink \in
         [info : {NoInfo},
          framebuffer_map_size : {ArenaLen},
          use_buffer_pool : BOOLEAN,
          use_hardware_overlay : BOOLEAN,
          overlay_alignment : {0},
          max_framebuffers : {ArenaLen \div ScreenBytes},
          nu_framebuffers_used : {1},
          nu_overlays_used : {0},
          pool : {NoPool},
          screens : {<<>>},
          overlays : {<<>>},
          vsync : {TRUE},
          pan_does_vsync : {FALSE},
          current_framebuffer_index : {0},
          current_overlay_index : {0},
          yoffset : {0},
          stats_video_frames_system_memory : {0},
          stats_overlay_frames_system_memory : {0}]
    /\ pools = <<>>
    /\ lastSink = LastSink("init", NoInfo, TRUE, FALSE, NoPool, NoBuild, 0)
    /\ revision = 1

\* upstream passes a frame in system memory to the sink
ShowFrame ==
    /\ framebuffersink.info \in VideoInfos
    /\ framebuffersink.stats_video_frames_system_memory
           + framebuffersink.stats_overlay_frames_system_memory < MaxFrames
    /\ \E wait_fails \in BOOLEAN, pan_fails \in BOOLEAN :
          \E r \in {show_frame(World, wait_fails, pan_fails)} :
              /\ framebuffersink' = r.w.sink
              /\ video_memory_allocator' = r.w.vm
              /\ lastSink' = [op |-> "show_frame", calls |-> lastSink.calls,
                              slot |-> r.slot, slots |-> r.slots,
                              dest |-> r.dest, shown |-> r.shown]
    /\ UNCHANGED <<allocator_kind, params_align, mems, last, threadVars, pools,
                   revision>>

SpecSlots ==
    InitSlots /\ [][\/ Negotiate \/ QueryNegotiated
                    \/ Activate \/ Acquire \/ Release \/ Deactivate
                    \/ ShowFrame]_vars

\* C36: a frame that selects a screen or an overlay by its index finds the
\* index below the number of slots in use (a number of 0 is the case of C16).
C36_SelectedSlotExists ==
    (/\ lastSink.op = "show_frame"
     /\ lastSink.slot # NoSlot
     /\ lastSink.slots >= 1)
        => lastSink.slot < lastSink.slots

\* C37: the region a frame of system memory has been copied to shares no
\* byte with a buffer of a pool, queued or checked out.
C37_CopyTargetIsNoPoolBuffer ==
    (lastSink.op = "show_frame" /\ lastSink.dest # NullMem)
        => \A p \in DOMAIN pools :
              \A k \in DOMAIN AllPoolMemories(pools[p]) :
                  Bytes(lastSink.dest) \cap Bytes(AllPoolMemories(pools[p])[k]) = {}

\* C38: the region the overlay hardware was told to show by the last frame
\* is live in the chain.
C38_ShownRegionStaysLive ==
    (lastSink.op = "show_frame" /\ lastSink.shown # NullMem)
        => EntriesOf(lastSink.shown) # {}

====
